---- MODULE Spec2Model ----
(***************************************************************************)
(* A model of the trellis automaton (src/Trellis.py) and of the word       *)
(* reduction engine (src/GroupActions.py).                                  *)
(*                                                                         *)
(* A trellis of height h and width w is a grid of 2h+1 rows; even rows     *)
(* hold w+1 switches, odd rows hold w.  A ball dropped into a slot of row  *)
(* 0 falls through the grid, flipping every switch it passes.              *)
(***************************************************************************)
EXTENDS Integers, Sequences, FiniteSets, TLC

(***************************************************************************)
(* Bounds of the model.                                                    *)
(***************************************************************************)
MaxH == 2        \* heights 1..MaxH are constructed
MaxW == 2        \* widths 1..MaxW are constructed
MaxWord == 2     \* longest word handed to drop_balls
MaxSlots == 8    \* largest grid whose every configuration is enumerated
MaxRot == 2      \* rotations of a set's insertion order that are enumerated
MaxStart == 1    \* longest start word handed to get_orbit
MaxLaps == 1     \* get_orbit is followed for MaxLaps * 2^rows rounds of its loop
MaxOver == 1     \* words handed to reduce hold up to period - 1 + MaxOver of a letter
MaxPasses == 6   \* passes of the while loop of reduce that ReduceOp follows
MaxElems == 3    \* longest list handed to find_equivalent_actions
MaxApplied == 40 \* rule applications after which a reduce is not followed further
MaxPath == 2     \* a drop is interrupted only while ball_path is shorter than MaxPath

(***************************************************************************)
(* Values.                                                                 *)
(***************************************************************************)
LEFT == TRUE
RIGHT == FALSE
None == << >>

LowerCase == << "a", "b", "c", "d", "e", "f", "g", "h", "i", "j", "k", "l", "m",
                "n", "o", "p", "q", "r", "s", "t", "u", "v", "w", "x", "y", "z" >>
UpperCase == << "A", "B", "C", "D", "E", "F", "G", "H", "I", "J", "K", "L", "M",
                "N", "O", "P", "Q", "R", "S", "T", "U", "V", "W", "X", "Y", "Z" >>

\* str.lower on a single character
Lower(char) ==
    IF \E i \in 1..Len(UpperCase) : UpperCase[i] = char
    THEN LowerCase[CHOOSE i \in 1..Len(UpperCase) : UpperCase[i] = char]
    ELSE char

\* ord(char) - ord("a") for a lower-case letter
OrdMinusA(char) == (CHOOSE i \in 1..Len(LowerCase) : LowerCase[i] = char) - 1

(***************************************************************************)
(* Trellis.__init__ : the derived attributes.                              *)
(***************************************************************************)
Rows(h) == 2 * h + 1
Cols(w) == w + 1
Period(h) == 2 ^ Rows(h)
RowLen(w, i) == Cols(w) - (i % 2)
Slots(h, w) == { s \in (0..(Rows(h) - 1)) \X (0..(Cols(w) - 1)) : s[2] < RowLen(w, s[1]) }
NewTrellis(h, w) == [ s \in Slots(h, w) |-> LEFT ]
IntToChar(i) == LowerCase[i + 1]
Atomic(w) == [ i \in 1..Cols(w) |-> IntToChar(i - 1) ]

\* a test that takes every character for a letter of the alphabet
IsValidAction_Any(w, char) == TRUE

IsValidAction(w, char) == \E i \in 1..Cols(w) : Atomic(w)[i] = Lower(char)
IsValidElement(w, chars) == \A k \in 1..Len(chars) : IsValidAction(w, chars[k])
CharToInt(char) == OrdMinusA(Lower(char))

Configs(h, w) == [ Slots(h, w) -> BOOLEAN ]
IsIdentity(t) == \A s \in DOMAIN t : t[s] = LEFT

(***************************************************************************)
(* Trellis.update : the next ball position and the flip of the slot.       *)
(***************************************************************************)
GoesLeft(t, pos) == t[pos]

\* a flip that forces the slot to RIGHT instead of toggling it
FlipState_Set(t, i, j) == [ t EXCEPT ![<< i, j >>] = RIGHT ]

\* a flip of the first slot of the ball's row instead of the ball's slot
FlipState_Col0(t, i, j) == [ t EXCEPT ![<< i, 0 >>] = ~ t[<< i, 0 >>] ]

FlipState(t, i, j) == [ t EXCEPT ![<< i, j >>] = ~ t[<< i, j >>] ]

\* an update without the case of the right-most slot of an even row
NextPosition_NoRightEdge(h, w, t, pos) ==
    LET row == pos[1]
        col == pos[2]
    IN  IF row = Rows(h) - 1 THEN None
        ELSE IF row % 2 = 1
             THEN IF GoesLeft(t, pos) THEN << row + 1, col >> ELSE << row + 1, col + 1 >>
        ELSE IF col = 0
             THEN IF GoesLeft(t, pos) THEN << row + 2, col >> ELSE << row + 1, col >>
        ELSE IF GoesLeft(t, pos) THEN << row + 1, col - 1 >> ELSE << row + 1, col >>

\* an update that moves the ball of an odd row to the right within the row
NextPosition_SameRow(h, w, t, pos) ==
    LET row == pos[1]
        col == pos[2]
    IN  IF row = Rows(h) - 1 THEN None
        ELSE IF row % 2 = 1
             THEN IF GoesLeft(t, pos) THEN << row + 1, col >> ELSE << row, col + 1 >>
        ELSE IF col = 0
             THEN IF GoesLeft(t, pos) THEN << row + 2, col >> ELSE << row + 1, col >>
        ELSE IF col = Cols(w) - 1
             THEN IF GoesLeft(t, pos) THEN << row + 1, col - 1 >> ELSE << row + 2, col >>
        ELSE IF GoesLeft(t, pos) THEN << row + 1, col - 1 >> ELSE << row + 1, col >>

\* the odd rows with the roles of LEFT and RIGHT swapped
NextPosition_Swapped(h, w, t, pos) ==
    LET row == pos[1]
        col == pos[2]
    IN  IF row = Rows(h) - 1 THEN None
        ELSE IF row % 2 = 1
             THEN IF GoesLeft(t, pos) THEN << row + 1, col + 1 >> ELSE << row + 1, col >>
        ELSE IF col = 0
             THEN IF GoesLeft(t, pos) THEN << row + 2, col >> ELSE << row + 1, col >>
        ELSE IF col = Cols(w) - 1
             THEN IF GoesLeft(t, pos) THEN << row + 1, col - 1 >> ELSE << row + 2, col >>
        ELSE IF GoesLeft(t, pos) THEN << row + 1, col - 1 >> ELSE << row + 1, col >>

NextPosition(h, w, t, pos) ==
    LET row == pos[1]
        col == pos[2]
    IN  IF row = Rows(h) - 1 THEN None
        ELSE IF row % 2 = 1
             THEN IF GoesLeft(t, pos) THEN << row + 1, col >> ELSE << row + 1, col + 1 >>
        ELSE IF col = 0
             THEN IF GoesLeft(t, pos) THEN << row + 2, col >> ELSE << row + 1, col >>
        ELSE IF col = Cols(w) - 1
             THEN IF GoesLeft(t, pos) THEN << row + 1, col - 1 >> ELSE << row + 2, col >>
        ELSE IF GoesLeft(t, pos) THEN << row + 1, col - 1 >> ELSE << row + 1, col >>

\* one call of update with a ball present: [trellis, ball_position]
UpdateOp(h, w, t, pos) ==
    [ trellis |-> FlipState(t, pos[1], pos[2]),
      ball_position |-> NextPosition(h, w, t, pos) ]

\* the while loop of drop_ball, from the ball at pos, as a function
RECURSIVE Fall(_, _, _, _)
Fall(h, w, t, pos) ==
    IF pos = None THEN t
    ELSE LET u == UpdateOp(h, w, t, pos)
         IN  Fall(h, w, u.trellis, u.ball_position)

\* drop_ball and drop_balls of valid letters, as functions of the configuration
DropBallOp(h, w, t, char) == Fall(h, w, t, << 0, CharToInt(char) >>)

\* the for loop of drop_balls: the first half of the letters, then the rest
\* from the configuration mid that the first half leaves
RECURSIVE DropBallsOp(_, _, _, _)
DropBallsOp(h, w, t, chars) ==
    IF chars = << >> THEN t
    ELSE IF Len(chars) = 1 THEN DropBallOp(h, w, t, chars[1])
    ELSE LET half == Len(chars) \div 2
         IN  CHOOSE u \in { DropBallsOp(h, w, mid, SubSeq(chars, half + 1, Len(chars))) :
                              mid \in { DropBallsOp(h, w, t, SubSeq(chars, 1, half)) } } : TRUE

(***************************************************************************)
(* Trellis.reset and Trellis.encoded_trellis.                              *)
(***************************************************************************)
RECURSIVE SumTo(_, _)
SumTo(f, n) == IF n = 0 THEN 0 ELSE f[n] + SumTo(f, n - 1)

\* position of slot (row, col) in chain.from_iterable(self.trellis)
FlatIndex(w, row, col) == SumTo([ i \in 1..row |-> RowLen(w, i - 1) ], row) + col

\* an encoding that leaves out the last row of the grid
EncodedTrellis_DropLast(h, w, t) ==
    SumTo([ i \in 1..(Rows(h) - 1) |->
              SumTo([ j \in 1..RowLen(w, i - 1) |->
                        IF t[<< i - 1, j - 1 >>] = LEFT
                        THEN 2 ^ FlatIndex(w, i - 1, j - 1) ELSE 0 ],
                    RowLen(w, i - 1)) ],
          Rows(h) - 1)

\* sum(map(lambda x: x[1] << x[0], enumerate(flattened))): LEFT counts 1
EncodedTrellis(h, w, t) ==
    SumTo([ i \in 1..Rows(h) |->
              SumTo([ j \in 1..RowLen(w, i - 1) |->
                        IF t[<< i - 1, j - 1 >>] = LEFT
                        THEN 2 ^ FlatIndex(w, i - 1, j - 1) ELSE 0 ],
                    RowLen(w, i - 1)) ],
          Rows(h))

(***************************************************************************)
(* GroupActions.allActions.                                                *)
(***************************************************************************)
Repeat(c, n) == [ i \in 1..n |-> c ]

\* "".join(tupl[j] * chars[j] for j in range(len(chars))), from letter j on
RECURSIVE BlockWord(_, _, _)
BlockWord(chs, tupl, j) ==
    IF j > Len(chs) THEN << >>
    ELSE Repeat(chs[j], tupl[j]) \o BlockWord(chs, tupl, j + 1)

\* the actions over chs with 0..period-1 of each letter, as a set
AllActions(chs, period) ==
    { BlockWord(chs, tupl, 1) : tupl \in [ 1..Len(chs) -> 0..(period - 1) ] }

(***************************************************************************)
(* GroupActions.getRewrites.                                               *)
(***************************************************************************)
\* an inversion that returns the tuple as it is
Invert_Same(rewrite_tuple) == [ i \in DOMAIN rewrite_tuple |-> rewrite_tuple[i] ]

Invert(rewrite_tuple) == [ i \in DOMAIN rewrite_tuple |-> 0 - rewrite_tuple[i] ]

Weight(rewrite_tuple) == SumTo(rewrite_tuple, Len(rewrite_tuple))

\* list(product(vals, repeat = m)): the first coordinate varies slowest
RECURSIVE Product(_, _)
Product(vals, m) ==
    IF m = 0 THEN << << >> >>
    ELSE LET rest == Product(vals, m - 1)
             k == Len(rest)
         IN  [ i \in 1..(Len(vals) * k) |->
                 << vals[((i - 1) \div k) + 1] >> \o rest[((i - 1) % k) + 1] ]

\* reducingTuple without the test of already_seen_reversible_rewrites
ReducingTuple_NoSeen(rewrite_tuple, swr, seen) ==
    LET weight == Weight(rewrite_tuple)
    IN  IF weight < 0 THEN [ out |-> rewrite_tuple, seen |-> seen ]
        ELSE IF weight > 0 THEN [ out |-> Invert(rewrite_tuple), seen |-> seen ]
        ELSE IF ~ swr THEN [ out |-> rewrite_tuple, seen |-> seen ]
        ELSE [ out |-> None, seen |-> seen ]

\* reducingTuple, given the closure's set of reversible tuples seen so far:
\* the tuple returned (None for no tuple) and the set afterwards
ReducingTuple(rewrite_tuple, swr, seen) ==
    LET weight == Weight(rewrite_tuple)
    IN  IF weight < 0 THEN [ out |-> rewrite_tuple, seen |-> seen ]
        ELSE IF weight > 0 THEN [ out |-> Invert(rewrite_tuple), seen |-> seen ]
        ELSE IF ~ swr /\ rewrite_tuple \notin seen
             THEN [ out |-> rewrite_tuple, seen |-> seen \cup { Invert(rewrite_tuple) } ]
        ELSE [ out |-> None, seen |-> seen ]

\* set(reducingTuple(t) for t in all_tuples) minus None, built left to right
\* over the tuples lo..hi from st (the first half of the range, then the
\* rest): the distinct tuples in the order they were first added, and the
\* seen set
RECURSIVE ReducingSet(_, _, _, _, _)
ReducingSet(all_tuples, lo, hi, swr, st) ==
    IF lo > hi THEN st
    ELSE IF lo = hi
    THEN LET r == ReducingTuple(all_tuples[lo], swr, st.seen)
             known == \E i \in 1..Len(st.out) : st.out[i] = r.out
         IN  [ out |-> IF r.out = None \/ known THEN st.out ELSE Append(st.out, r.out),
               seen |-> r.seen ]
    ELSE LET mid == (lo + hi) \div 2
         IN  CHOOSE r \in { ReducingSet(all_tuples, mid + 1, hi, swr, first) :
                              first \in { ReducingSet(all_tuples, lo, mid, swr, st) } } : TRUE

\* The order in which a set of tuples is iterated is fixed by the build, not
\* by the program: the orders enumerated are the rotations of the insertion
\* order and their reversals.
Arrange(s, sd) ==
    LET n == Len(s)
        rot == [ i \in 1..n |-> s[((i - 1 + sd.rot) % n) + 1] ]
    IN  IF sd.rev THEN [ i \in 1..n |-> rot[n + 1 - i] ] ELSE rot

TupleToCounter(chs, rewrite_tuple) ==
    [ c \in { chs[i] : i \in 1..Len(chs) } |->
        rewrite_tuple[CHOOSE i \in 1..Len(chs) : chs[i] = c] ]

\* the body of the for loop with product([-n, period]) for product([-n, period - n])
RewritesFor_Period(n, chs, period, swr, sd, seen) ==
    LET all_tuples == Product(<< 0 - n, period >>, Len(chs))
        reducing == ReducingSet(all_tuples, 1, Len(all_tuples), swr,
                                [ out |-> << >>, seen |-> seen ])
        listed == Arrange(reducing.out, sd)
    IN  [ out |-> [ i \in 1..Len(listed) |-> TupleToCounter(chs, listed[i]) ],
          seen |-> reducing.seen ]

\* the body of the for loop for one n: the rules it appends, and the seen set
RewritesFor(n, chs, period, swr, sd, seen) ==
    LET all_tuples == Product(<< 0 - n, period - n >>, Len(chs))
        reducing == ReducingSet(all_tuples, 1, Len(all_tuples), swr,
                                [ out |-> << >>, seen |-> seen ])
        listed == Arrange(reducing.out, sd)
    IN  [ out |-> [ i \in 1..Len(listed) |-> TupleToCounter(chs, listed[i]) ],
          seen |-> reducing.seen ]

\* the for loop over n = 2 * lo, ..., 2 * hi, in order (the first half of the
\* range, then the rest with the seen set the first half left)
RECURSIVE RewritesFrom(_, _, _, _, _, _, _)
RewritesFrom(lo, hi, chs, period, swr, sd, seen) ==
    IF lo > hi THEN [ out |-> << >>, seen |-> seen ]
    ELSE IF lo = hi THEN RewritesFor(2 * lo, chs, period, swr, sd, seen)
    ELSE LET mid == (lo + hi) \div 2
         IN  CHOOSE r \in { [ out |-> first.out \o rest.out, seen |-> rest.seen ] :
                              << first, rest >> \in
                                 { << f, RewritesFrom(mid + 1, hi, chs, period, swr, sd, f.seen) >> :
                                     f \in { RewritesFrom(lo, mid, chs, period, swr, sd, seen) } } } : TRUE

\* range(2, period // 2 + 1, 2)
GetRewrites(chs, period, swr, sd) ==
    RewritesFrom(1, (period \div 2) \div 2, chs, period, swr, sd, { }).out

\* the trellises modelled: those of at most MaxSlots slots
Dims == { d \in (1..MaxH) \X (1..MaxW) : Cardinality(Slots(d[1], d[2])) <= MaxSlots }

\* the iteration orders modelled, and the order of insertion
Seed0 == [ rot |-> 0, rev |-> FALSE ]
Seeds == [ rot : 0..(MaxRot - 1), rev : BOOLEAN ]

\* Trellis.get_rewrites of a trellis under an iteration order, by mode
TrellisGetRewrites(h, w, sd) ==
    [ swr \in BOOLEAN |-> GetRewrites(Atomic(w), Period(h), swr, sd) ]

(***************************************************************************)
(* GroupActions.reduce.                                                    *)
(***************************************************************************)
LowerStr(word) == [ i \in 1..Len(word) |-> Lower(word[i]) ]

CharSet(chs) == { chs[i] : i \in 1..Len(chs) }

\* Counter(action), read through action[char] (0 for a missing letter)
CounterOf(chs, word) ==
    [ c \in CharSet(chs) |-> Cardinality({ i \in 1..Len(word) : word[i] = c }) ]

\* Counter.__add__ keeps the positive counts only
CounterAdd(a, rewrite) ==
    [ c \in DOMAIN a |-> IF a[c] + rewrite[c] > 0 THEN a[c] + rewrite[c] ELSE 0 ]

Applicable(a, rewrite) == \A c \in DOMAIN a : a[c] + rewrite[c] >= 0

\* a scan that stops at the first rule it applies
RECURSIVE ReduceScan_FirstOnly(_, _, _, _)
ReduceScan_FirstOnly(a, rules, lo, hi) ==
    LET ks == { k \in lo..hi : Applicable(a, rules[k]) }
        k1 == CHOOSE k \in ks : \A j \in ks : k <= j
    IN  IF ks = { } THEN [ action |-> a, applied |-> << >> ]
        ELSE [ action |-> CounterAdd(a, rules[k1]), applied |-> << k1 >> ]

\* the for loop of reduceStep over the rules lo..hi, in order (the first half
\* of the range, then the rest from the vector the first half left): the
\* vector reached and the indexes of the rules applied
RECURSIVE ReduceScan(_, _, _, _)
ReduceScan(a, rules, lo, hi) ==
    IF lo > hi THEN [ action |-> a, applied |-> << >> ]
    ELSE IF lo = hi
    THEN IF Applicable(a, rules[lo])
         THEN [ action |-> CounterAdd(a, rules[lo]), applied |-> << lo >> ]
         ELSE [ action |-> a, applied |-> << >> ]
    ELSE LET mid == (lo + hi) \div 2
         IN  CHOOSE r \in { [ applied |-> first.applied \o rest.applied,
                                action |-> rest.action ] :
                              << first, rest >> \in
                                 { << f, ReduceScan(f.action, rules, mid + 1, hi) >> :
                                     f \in { ReduceScan(a, rules, lo, mid) } } } : TRUE

ReduceStep(a, rules) == ReduceScan(a, rules, 1, Len(rules))

\* "".join(sorted(action.elements()))
\* the letters of the counter from the k-th letter of the alphabet on
\* the letters of the counter in falling order, from the k-th letter down
RECURSIVE CounterToStr_Reversed(_, _)
CounterToStr_Reversed(a, k) ==
    IF k > Len(LowerCase) THEN << >>
    ELSE CounterToStr_Reversed(a, k + 1)
         \o (IF LowerCase[k] \in DOMAIN a THEN Repeat(LowerCase[k], a[LowerCase[k]]) ELSE << >>)

RECURSIVE CounterToStrFrom(_, _)
CounterToStrFrom(a, k) ==
    IF \A j \in k..Len(LowerCase) : LowerCase[j] \notin DOMAIN a THEN << >>
    ELSE (IF LowerCase[k] \in DOMAIN a THEN Repeat(LowerCase[k], a[LowerCase[k]]) ELSE << >>)
         \o CounterToStrFrom(a, k + 1)

CounterToStr(a) == CounterToStrFrom(a, 1)

\* the while loop of reduce, followed for n passes: the vector it ends with
RECURSIVE ReduceRun(_, _, _)
ReduceRun(a, rules, n) ==
    IF n = 0 THEN a
    ELSE CHOOSE r \in { IF new_action = a THEN a ELSE ReduceRun(new_action, rules, n - 1) :
                          new_action \in { ReduceStep(a, rules).action } } : TRUE

\* reduce(word, rules, chs) as a function, for a word of letters of chs whose
\* reduction takes no more than MaxPasses passes
ReduceOp(chs, word, rules) ==
    CounterToStr(ReduceRun(CounterOf(chs, LowerStr(word)), rules, MaxPasses))

(***************************************************************************)
(* State.                                                                  *)
(***************************************************************************)
VARIABLES
    height, width,      \* Trellis.__init__(h, w)
    seed,               \* the iteration order of sets of tuples in this build
    get_rewrites,       \* what self.get_rewrites returns, by mode: it depends
                        \* on the trellis and on the build only
    trellis,            \* self.trellis
    ball_position,      \* self.ball_position
    ball_path,          \* self.ball_path
    pc,                 \* where control is
    op,                 \* the public method called last
    err,                \* the exception that ended it, "" if none
    chars,              \* drop_balls: the letters still to drop
    ret,                \* where drop_balls returns to
    cfg0, word0,        \* the configuration and the word at the call
    o_chars, o_start, o_swr, count, orbit, initial_state,   \* get_orbit
    r_word, r_swr, rewrites, action, applied, result,       \* reduce
    elements, visited,  \* find_equivalent_actions: the items still to
                        \* process, and the dictionary
    retval              \* what the public method returned

confVars == << height, width, seed, get_rewrites >>
ballVars == << trellis, ball_position, ball_path >>
ctlVars == << pc, op, err, chars, ret, cfg0, word0 >>
orbitVars == << o_chars, o_start, o_swr, count, orbit, initial_state >>
findVars == << elements, visited >>
reduceVars == << r_word, r_swr, rewrites, action, applied, result >>
vars == << confVars, ballVars, ctlVars, orbitVars, findVars, reduceVars, retval >>

(***************************************************************************)
(* Inputs.                                                                 *)
(***************************************************************************)
RECURSIVE WordsUpTo(_, _)
WordsUpTo(letters, n) ==
    IF n = 0 THEN { << >> }
    ELSE LET shorter == WordsUpTo(letters, n - 1)
         IN  shorter \cup { Append(u, x) : u \in shorter, x \in letters }

Letters(w) == { Atomic(w)[i] : i \in 1..Cols(w) }

(***************************************************************************)
(* Frames.  The locals of get_orbit and of reduce exist only while the     *)
(* method runs; a call of a public method starts from fresh locals.        *)
(***************************************************************************)
NoOrbit ==
    /\ o_chars' = << >>
    /\ o_start' = << >>
    /\ o_swr' = TRUE
    /\ count' = 0
    /\ orbit' = << >>
    /\ initial_state' = 0

NoFind ==
    /\ elements' = << >>
    /\ visited' = << >>

NoReduce ==
    /\ r_word' = << >>
    /\ r_swr' = TRUE
    /\ rewrites' = << >>
    /\ action' = << >>
    /\ applied' = << >>
    /\ result' = << >>

\* an exception unwinds to the caller of the public method
Raise(e) ==
    /\ pc' = "idle"
    /\ err' = e
    /\ chars' = << >>

(***************************************************************************)
(* Trellis.drop_ball, Trellis.drop_balls, Trellis.update as steps.         *)
(***************************************************************************)
\* drop_ball without its first assertion
CallDropBall_NoBallCheck(char) ==
    /\ pc = "idle"
    /\ op' = "drop_ball"
    /\ cfg0' = trellis
    /\ word0' = << char >>
    /\ ret' = "idle"
    /\ retval' = None
    /\ IF ~ IsValidAction(width, char)
       THEN /\ Raise("AssertionError")
            /\ UNCHANGED ballVars
       ELSE /\ ball_position' = << 0, CharToInt(char) >>
            /\ pc' = "update"
            /\ err' = ""
            /\ chars' = << >>
            /\ UNCHANGED << trellis, ball_path >>
    /\ NoOrbit
    /\ NoFind
    /\ NoReduce
    /\ UNCHANGED confVars

\* drop_ball(char) called by the user of the trellis
CallDropBall(char) ==
    /\ pc = "idle"
    /\ op' = "drop_ball"
    /\ cfg0' = trellis
    /\ word0' = << char >>
    /\ ret' = "idle"
    /\ retval' = None
    /\ IF ball_position # None \/ ~ IsValidAction(width, char)
       THEN /\ Raise("AssertionError")
            /\ UNCHANGED ballVars
       ELSE /\ ball_position' = << 0, CharToInt(char) >>
            /\ pc' = "update"
            /\ err' = ""
            /\ chars' = << >>
            /\ UNCHANGED << trellis, ball_path >>
    /\ NoOrbit
    /\ NoFind
    /\ NoReduce
    /\ UNCHANGED confVars

\* a drop_balls that checks the whole word before it drops a ball
CallDropBalls_Validated(word) ==
    /\ pc = "idle"
    /\ op' = "drop_balls"
    /\ cfg0' = trellis
    /\ word0' = word
    /\ ret' = "idle"
    /\ retval' = None
    /\ IF ~ IsValidElement(width, word)
       THEN /\ Raise("AssertionError")
       ELSE /\ chars' = word
            /\ pc' = "drop_balls"
            /\ err' = ""
    /\ NoOrbit
    /\ NoFind
    /\ NoReduce
    /\ UNCHANGED << confVars, ballVars >>

\* drop_balls(word) called by the user of the trellis
CallDropBalls(word) ==
    /\ pc = "idle"
    /\ op' = "drop_balls"
    /\ cfg0' = trellis
    /\ word0' = word
    /\ chars' = word
    /\ ret' = "idle"
    /\ retval' = None
    /\ pc' = "drop_balls"
    /\ err' = ""
    /\ NoOrbit
    /\ NoFind
    /\ NoReduce
    /\ UNCHANGED << confVars, ballVars >>

\* one iteration of the for loop of drop_balls: the call of drop_ball
DropBallsNext ==
    /\ pc = "drop_balls"
    /\ chars # << >>
    /\ IF ball_position # None \/ ~ IsValidAction(width, Head(chars))
       THEN /\ Raise("AssertionError")
            /\ UNCHANGED ballVars
       ELSE /\ ball_position' = << 0, CharToInt(Head(chars)) >>
            /\ pc' = "update"
            /\ chars' = Tail(chars)
            /\ UNCHANGED << trellis, ball_path, err >>
    /\ UNCHANGED << confVars, op, ret, cfg0, word0, orbitVars, findVars, reduceVars, retval >>

\* the for loop of drop_balls is exhausted
DropBallsReturn ==
    /\ pc = "drop_balls"
    /\ chars = << >>
    /\ pc' = ret
    /\ UNCHANGED << confVars, ballVars, op, err, chars, ret, cfg0, word0,
                    orbitVars, findVars, reduceVars, retval >>

\* an update that leaves the path trace in place when the ball is gone
Update_KeepPath ==
    /\ pc = "update"
    /\ IF ball_position = None
       THEN /\ pc' = IF op = "drop_ball" THEN "idle" ELSE "drop_balls"
            /\ UNCHANGED << trellis, ball_position, ball_path, err, chars >>
       ELSE IF ball_position \notin DOMAIN trellis
       THEN /\ ball_path' = Append(ball_path, ball_position)
            /\ Raise("IndexError")
            /\ UNCHANGED << trellis, ball_position >>
       ELSE /\ ball_path' = Append(ball_path, ball_position)
            /\ ball_position' = UpdateOp(height, width, trellis, ball_position).ball_position
            /\ trellis' = UpdateOp(height, width, trellis, ball_position).trellis
            /\ UNCHANGED << pc, err, chars >>
    /\ UNCHANGED << confVars, op, ret, cfg0, word0, orbitVars, findVars, reduceVars, retval >>

\* one call of update from the while loop of drop_ball
Update ==
    /\ pc = "update"
    /\ IF ball_position = None
       THEN /\ ball_path' = << >>
            /\ pc' = IF op = "drop_ball" THEN "idle" ELSE "drop_balls"
            /\ UNCHANGED << trellis, ball_position, err, chars >>
       ELSE IF ball_position \notin DOMAIN trellis
       THEN /\ ball_path' = Append(ball_path, ball_position)
            /\ Raise("IndexError")
            /\ UNCHANGED << trellis, ball_position >>
       ELSE /\ ball_path' = Append(ball_path, ball_position)
            /\ ball_position' = UpdateOp(height, width, trellis, ball_position).ball_position
            /\ trellis' = UpdateOp(height, width, trellis, ball_position).trellis
            /\ UNCHANGED << pc, err, chars >>
    /\ UNCHANGED << confVars, op, ret, cfg0, word0, orbitVars, findVars, reduceVars, retval >>

(***************************************************************************)
(* Trellis.reset.                                                          *)
(***************************************************************************)
\* a reset that also takes the ball out
Reset_ClearsBall ==
    /\ pc = "idle"
    /\ op' = "reset"
    /\ err' = ""
    /\ cfg0' = trellis
    /\ word0' = << >>
    /\ retval' = None
    /\ trellis' = NewTrellis(height, width)
    /\ ball_path' = << >>
    /\ ball_position' = None
    /\ NoOrbit
    /\ NoFind
    /\ NoReduce
    /\ UNCHANGED << confVars, pc, chars, ret >>

\* reset() called by the user of the trellis
Reset ==
    /\ pc = "idle"
    /\ op' = "reset"
    /\ err' = ""
    /\ cfg0' = trellis
    /\ word0' = << >>
    /\ retval' = None
    /\ trellis' = NewTrellis(height, width)
    /\ ball_path' = << >>
    /\ NoOrbit
    /\ NoFind
    /\ NoReduce
    /\ UNCHANGED << confVars, ball_position, pc, chars, ret >>

\* update() called by the user of the trellis: one basic action, which
\* returns whether a ball was there
CallUpdate ==
    /\ pc = "idle"
    /\ op' = "update"
    /\ cfg0' = trellis
    /\ word0' = << >>
    /\ ret' = "idle"
    /\ IF ball_position = None
       THEN /\ ball_path' = << >>
            /\ retval' = FALSE
            /\ err' = ""
            /\ UNCHANGED << trellis, ball_position >>
       ELSE IF ball_position \notin DOMAIN trellis
       THEN /\ ball_path' = Append(ball_path, ball_position)
            /\ retval' = None
            /\ err' = "IndexError"
            /\ UNCHANGED << trellis, ball_position >>
       ELSE /\ ball_path' = Append(ball_path, ball_position)
            /\ ball_position' = UpdateOp(height, width, trellis, ball_position).ball_position
            /\ trellis' = UpdateOp(height, width, trellis, ball_position).trellis
            /\ retval' = TRUE
            /\ err' = ""
    /\ NoOrbit
    /\ NoFind
    /\ NoReduce
    /\ UNCHANGED << confVars, pc, chars >>

\* encoded_trellis() called by the user of the trellis
CallEncodedTrellis ==
    /\ pc = "idle"
    /\ op' = "encoded_trellis"
    /\ err' = ""
    /\ cfg0' = trellis
    /\ word0' = << >>
    /\ retval' = EncodedTrellis(height, width, trellis)
    /\ NoOrbit
    /\ NoFind
    /\ NoReduce
    /\ UNCHANGED << confVars, ballVars, pc, chars, ret >>

\* a KeyboardInterrupt delivered between two iterations of the while loop
\* of drop_ball unwinds to the caller and leaves the ball where it is
Interrupt ==
    /\ pc = "update"
    /\ ball_position # None
    /\ Len(ball_path) < MaxPath
    /\ Raise("KeyboardInterrupt")
    /\ UNCHANGED << confVars, ballVars, op, ret, cfg0, word0, orbitVars, findVars, reduceVars,
                    retval >>

(***************************************************************************)
(* Trellis.reduce -> GroupActions.reduce, one pass of the while loop per   *)
(* step.                                                                   *)
(***************************************************************************)
\* the entry of reduce: get_rewrites, the type check, and Counter(action)
ReduceEntry(word, swr, back) ==
    /\ r_word' = word
    /\ r_swr' = swr
    /\ rewrites' = get_rewrites[swr]
    /\ applied' = << >>
    /\ result' = << >>
    /\ IF CharSet(LowerStr(word)) \ CharSet(Atomic(width)) # { }
       THEN /\ Raise("ValueError")
            /\ action' = << >>
            /\ UNCHANGED ret
       ELSE /\ action' = CounterOf(Atomic(width), LowerStr(word))
            /\ pc' = "reduce"
            /\ ret' = back
            /\ err' = ""
            /\ UNCHANGED chars

\* reduce(word, swr) called by the user of the trellis
CallReduce(word, swr) ==
    /\ pc = "idle"
    /\ op' = "reduce"
    /\ cfg0' = trellis
    /\ word0' = word
    /\ retval' = None
    /\ ReduceEntry(word, swr, "idle")
    /\ NoOrbit
    /\ NoFind
    /\ UNCHANGED << confVars, ballVars >>

\* reduce(reduce(word, swr), swr): the second call, on what the first returned
CallReduceAgain ==
    /\ pc = "idle"
    /\ op = "reduce"
    /\ err = ""
    /\ op' = "reduce(reduce)"
    /\ retval' = None
    /\ ReduceEntry(retval, r_swr, "idle")
    /\ NoOrbit
    /\ NoFind
    /\ UNCHANGED << confVars, ballVars, cfg0, word0 >>

\* a reduce that returns after its first pass
ReducePass_Once ==
    /\ pc = "reduce"
    /\ LET new == ReduceStep(action, rewrites)
       IN  /\ applied' = applied \o new.applied
           /\ result' = CounterToStr(new.action)
           /\ pc' = ret
           /\ retval' = IF ret = "idle" THEN CounterToStr(new.action) ELSE retval
           /\ action' = new.action
    /\ UNCHANGED << confVars, ballVars, op, err, chars, ret, cfg0, word0, orbitVars, findVars,
                    r_word, r_swr, rewrites >>

\* one iteration of the while loop of reduce
ReducePass ==
    /\ pc = "reduce"
    /\ LET new == ReduceStep(action, rewrites)
       IN  /\ applied' = applied \o new.applied
           /\ IF new.action = action
              THEN /\ result' = CounterToStr(action)
                   /\ pc' = ret
                   /\ retval' = IF ret = "idle" THEN CounterToStr(action) ELSE retval
                   /\ UNCHANGED action
              ELSE /\ action' = new.action
                   /\ UNCHANGED << pc, result, retval >>
    /\ UNCHANGED << confVars, ballVars, op, err, chars, ret, cfg0, word0, orbitVars, findVars,
                    r_word, r_swr, rewrites >>

(***************************************************************************)
(* Trellis.get_orbit and Trellis.get_period.                               *)
(***************************************************************************)
\* lines 247-253: the assertions, reset, and the call drop_balls(start)
GetOrbitEntry(word, start, swr) ==
    /\ pc = "idle"
    /\ cfg0' = NewTrellis(height, width)
    /\ word0' = word
    /\ o_chars' = word
    /\ o_start' = start
    /\ o_swr' = swr
    /\ count' = 0
    /\ orbit' = << >>
    /\ initial_state' = 0
    /\ retval' = None
    /\ IF ~ IsValidElement(width, word) \/ ~ IsValidElement(width, start)
       THEN /\ Raise("AssertionError")
            /\ UNCHANGED << ballVars, ret >>
       ELSE /\ trellis' = NewTrellis(height, width)
            /\ ball_path' = << >>
            /\ ball_position' = None
            /\ chars' = start
            /\ ret' = "orbit_init"
            /\ pc' = "drop_balls"
            /\ err' = ""
    /\ NoReduce
    /\ NoFind
    /\ UNCHANGED confVars

CallGetOrbit(word, start, swr) ==
    /\ op' = "get_orbit"
    /\ GetOrbitEntry(word, start, swr)

CallGetPeriod(word, swr) ==
    /\ op' = "get_period"
    /\ GetOrbitEntry(word, << >>, swr)

\* lines 254-257
OrbitInit ==
    /\ pc = "orbit_init"
    /\ initial_state' = EncodedTrellis(height, width, trellis)
    /\ count' = 0
    /\ orbit' = << >>
    /\ pc' = "orbit_reduce"
    /\ UNCHANGED << confVars, ballVars, op, err, chars, ret, cfg0, word0,
                    o_chars, o_start, o_swr, findVars, reduceVars, retval >>

\* chars * count
Times(word, n) == [ i \in 1..(n * Len(word)) |-> word[((i - 1) % Len(word)) + 1] ]

\* line 261: the call self.reduce(start + chars * count, ...)
OrbitReduce ==
    /\ pc = "orbit_reduce"
    /\ count < MaxLaps * Period(height)
    /\ ReduceEntry(o_start \o Times(o_chars, count), o_swr, "orbit_append")
    /\ UNCHANGED << confVars, ballVars, op, cfg0, word0, orbitVars, findVars, retval >>

\* lines 261-262: orbit.append(...), and the call drop_balls(chars)
OrbitAppend ==
    /\ pc = "orbit_append"
    /\ orbit' = Append(orbit, result)
    /\ chars' = o_chars
    /\ ret' = "orbit_check"
    /\ pc' = "drop_balls"
    /\ UNCHANGED << confVars, ballVars, op, err, cfg0, word0,
                    o_chars, o_start, o_swr, count, initial_state, findVars,
                    reduceVars, retval >>

\* lines 263-267; get_period returns len(orbit)
OrbitCheck ==
    /\ pc = "orbit_check"
    /\ count' = count + 1
    /\ IF EncodedTrellis(height, width, trellis) = initial_state
       THEN /\ pc' = "idle"
            /\ retval' = IF op = "get_period" THEN << Len(orbit) >> ELSE orbit
       ELSE /\ pc' = "orbit_reduce"
            /\ UNCHANGED retval
    /\ UNCHANGED << confVars, ballVars, op, err, chars, ret, cfg0, word0,
                    o_chars, o_start, o_swr, orbit, initial_state, findVars,
                    reduceVars >>

(***************************************************************************)
(* Trellis.find_equivalent_actions, one item of the for loop per step.     *)
(***************************************************************************)
\* an update of the dictionary that replaces the list of a key already there
Visit_Overwrite(vis, encoded, item) ==
    [ e \in DOMAIN vis \cup { encoded } |-> IF e = encoded THEN << item >> ELSE vis[e] ]

\* lines 361-364: visited[encoded] = [item], or visited[encoded] += [item]
Visit(vis, encoded, item) ==
    IF encoded \notin DOMAIN vis
    THEN [ e \in DOMAIN vis \cup { encoded } |-> IF e = encoded THEN << item >> ELSE vis[e] ]
    ELSE [ vis EXCEPT ![encoded] = @ \o << item >> ]

\* the letters of chars up to the first that is_valid_action refuses
RECURSIVE ValidPrefix(_, _)
ValidPrefix(w, word) ==
    IF word = << >> \/ ~ IsValidAction(w, Head(word)) THEN << >>
    ELSE << Head(word) >> \o ValidPrefix(w, Tail(word))

\* find_equivalent_actions(elements) called by the user of the trellis
CallFindEquivalentActions(elems) ==
    /\ pc = "idle"
    /\ op' = "find_equivalent_actions"
    /\ err' = ""
    /\ cfg0' = trellis
    /\ word0' = elems
    /\ retval' = None
    /\ elements' = elems
    /\ visited' = << >>
    /\ pc' = "find"
    /\ NoOrbit
    /\ NoReduce
    /\ UNCHANGED << confVars, ballVars, chars, ret >>

\* a number for a word of the alphabet that words with other letter counts
\* do not have
WordKey(h, w, word) ==
    SumTo([ i \in 1..Cols(w) |->
              Cardinality({ k \in 1..Len(word) : word[k] = Atomic(w)[i] })
                * ((Period(h) + MaxOver + 1) ^ (i - 1)) ],
          Cols(w))

\* list(s) for a set s of reduced words, in one order (by WordKey); the
\* build's order is an arrangement of it
SetToList(h, w, S) ==
    LET keyed == { << WordKey(h, w, x), x >> : x \in S }
    IN  [ i \in 1..Cardinality(S) |->
            (CHOOSE p \in keyed :
                Cardinality({ q \in keyed : q[1] < p[1] }) = i - 1)[2] ]

\* all_reduced_actions(): list(set(reduce(action) for action in all_actions()))
AllReducedActions(h, w, rules, sd) ==
    Arrange(SetToList(h, w, { ReduceOp(Atomic(w), a, rules) :
                                a \in AllActions(Atomic(w), Period(h)) }),
            sd)

\* find_equivalent_actions() called with elements=None: lines 352-353
CallFindEquivalentActionsOfAll ==
    CallFindEquivalentActions(AllReducedActions(height, width, get_rewrites[TRUE], seed))

\* one iteration of the for loop: reset, drop_balls(item), encoded_trellis
\* and the entry in visited
FindItem ==
    /\ pc = "find"
    /\ elements # << >>
    /\ LET item == Head(elements)
           fresh == NewTrellis(height, width)
       IN  IF item # << >> /\ ball_position # None
           THEN /\ trellis' = fresh
                /\ ball_path' = << >>
                /\ Raise("AssertionError")
                /\ UNCHANGED << ball_position, findVars >>
           ELSE IF ~ IsValidElement(width, item)
           THEN /\ trellis' = DropBallsOp(height, width, fresh, ValidPrefix(width, item))
                /\ ball_path' = << >>
                /\ Raise("AssertionError")
                /\ UNCHANGED << ball_position, findVars >>
           ELSE /\ trellis' = DropBallsOp(height, width, fresh, item)
                /\ ball_path' = << >>
                /\ visited' = Visit(visited, EncodedTrellis(height, width, trellis'), item)
                /\ elements' = Tail(elements)
                /\ UNCHANGED << ball_position, pc, err, chars >>
    /\ UNCHANGED << confVars, op, ret, cfg0, word0, orbitVars, reduceVars, retval >>

\* the for loop is exhausted: return visited
FindReturn ==
    /\ pc = "find"
    /\ elements = << >>
    /\ retval' = visited
    /\ pc' = "idle"
    /\ UNCHANGED << confVars, ballVars, op, err, chars, ret, cfg0, word0, orbitVars,
                    findVars, reduceVars >>

\* find_equivalent_actions(elements) as a function: the dictionary after the
\* items k.. of the list, from the dictionary vis
RECURSIVE FindFrom(_, _, _, _, _)
FindFrom(h, w, elems, k, vis) ==
    IF k > Len(elems) THEN vis
    ELSE FindFrom(h, w, elems, k + 1,
                  Visit(vis, EncodedTrellis(h, w, DropBallsOp(h, w, NewTrellis(h, w), elems[k])),
                        elems[k]))

FindEquivalentActionsOp(h, w, elems) == FindFrom(h, w, elems, 1, << >>)

(***************************************************************************)
(* Specifications.                                                         *)
(***************************************************************************)
\* everything but the trellis's dimensions, configuration and the seed
InitRest ==
    /\ ball_position = None
    /\ ball_path = << >>
    /\ pc = "idle"
    /\ op = "none"
    /\ err = ""
    /\ chars = << >>
    /\ ret = "idle"
    /\ cfg0 = None
    /\ word0 = << >>
    /\ o_chars = << >>
    /\ o_start = << >>
    /\ o_swr = TRUE
    /\ count = 0
    /\ orbit = << >>
    /\ initial_state = 0
    /\ elements = << >>
    /\ visited = << >>
    /\ r_word = << >>
    /\ r_swr = TRUE
    /\ rewrites = << >>
    /\ action = << >>
    /\ applied = << >>
    /\ result = << >>
    /\ retval = None

\* A trellis in any configuration, and the drops of a word into it.
InitCfg ==
    /\ \E d \in Dims :
          /\ height = d[1]
          /\ width = d[2]
    /\ seed = Seed0
    /\ get_rewrites = TrellisGetRewrites(height, width, seed)
    /\ trellis \in Configs(height, width)
    /\ InitRest

NextCfg ==
    \/ \E char \in Letters(width) : CallDropBall(char)
    \/ \E word \in WordsUpTo(Letters(width), MaxWord) : CallDropBalls(word)
    \/ DropBallsNext
    \/ DropBallsReturn
    \/ Update

SpecCfg == InitCfg /\ [][NextCfg]_vars

\* The while loop of a drop_ball that was called runs on, and so does the for
\* loop of drop_balls.
SpecCfgFair == SpecCfg /\ WF_vars(Update \/ DropBallsNext \/ DropBallsReturn)

\* The characters handed to drop_ball: the letters of the alphabet, in
\* either case, and letters past the alphabet.
DropChars(w) ==
    Letters(w) \cup { UpperCase[1], UpperCase[Cols(w)],
                      LowerCase[Cols(w) + 1], UpperCase[Cols(w) + 1], LowerCase[26] }

\* A trellis in any configuration into which words are dropped that may
\* hold characters outside the alphabet.
NextDrops ==
    \/ /\ op = "none"
       /\ \E word \in WordsUpTo(DropChars(width), MaxWord) : CallDropBalls(word)
    \/ DropBallsNext
    \/ DropBallsReturn
    \/ Update

SpecDrops == InitCfg /\ [][NextDrops]_vars

\* A trellis in any configuration used through drop_ball, update, reset and
\* encoded_trellis, a drop being open to an interrupt.
NextCalls ==
    \/ \E char \in DropChars(width) : CallDropBall(char)
    \/ CallUpdate
    \/ Reset
    \/ CallEncodedTrellis
    \/ Update
    \/ Interrupt

SpecCalls == InitCfg /\ [][NextCalls]_vars

\* The lists handed to find_equivalent_actions: up to MaxElems words of the
\* alphabet.
RECURSIVE ListsUpTo(_, _)
ListsUpTo(words, n) ==
    IF n = 0 THEN { << >> }
    ELSE LET shorter == ListsUpTo(words, n - 1)
         IN  shorter \cup { Append(u, x) : u \in shorter, x \in words }

\* A new trellis, left as it is or after the drop of one letter, and one
\* call of find_equivalent_actions on it.
InitFind ==
    /\ \E d \in Dims :
          /\ height = d[1]
          /\ width = d[2]
    /\ seed = Seed0
    /\ get_rewrites = TrellisGetRewrites(height, width, seed)
    /\ trellis = NewTrellis(height, width)
    /\ InitRest

NextFind ==
    \/ /\ op = "none"
       /\ \E char \in Letters(width) : CallDropBall(char)
    \/ Update
    \/ /\ op \in { "none", "drop_ball" }
       /\ \E elems \in ListsUpTo(WordsUpTo(Letters(width), MaxWord), MaxElems) :
             CallFindEquivalentActions(elems)
    \/ FindItem
    \/ FindReturn

SpecFind == InitFind /\ [][NextFind]_vars

\* A newly constructed trellis.
InitNew ==
    /\ \E d \in Dims :
          /\ height = d[1]
          /\ width = d[2]
    /\ seed \in Seeds
    /\ get_rewrites = TrellisGetRewrites(height, width, seed)
    /\ trellis = NewTrellis(height, width)
    /\ InitRest

OrbitStep ==
    \/ DropBallsNext
    \/ DropBallsReturn
    \/ Update
    \/ OrbitInit
    \/ OrbitReduce
    \/ ReducePass
    \/ OrbitAppend
    \/ OrbitCheck

NextOrbit ==
    \/ \E word \in WordsUpTo(Letters(width), MaxWord),
          start \in WordsUpTo(Letters(width), MaxStart),
          swr \in BOOLEAN : CallGetOrbit(word, start, swr)
    \/ \E word \in WordsUpTo(Letters(width), MaxWord),
          swr \in BOOLEAN : CallGetPeriod(word, swr)
    \/ OrbitStep

\* A method that was called runs on: the program is sequential, and nothing
\* else runs beside it.
SpecOrbit == InitNew /\ [][NextOrbit]_vars /\ WF_vars(OrbitStep)

\* A newly constructed trellis used through any sequence of calls of
\* drop_ball, drop_balls, reset, get_orbit, get_period and
\* find_equivalent_actions with letters of its alphabet, each call running to
\* its end before the next one.
NextAll ==
    \/ \E char \in Letters(width) : CallDropBall(char)
    \/ \E word \in WordsUpTo(Letters(width), MaxWord) : CallDropBalls(word)
    \/ Reset
    \/ \E word \in WordsUpTo(Letters(width), MaxWord),
          start \in WordsUpTo(Letters(width), MaxStart),
          swr \in BOOLEAN : CallGetOrbit(word, start, swr)
    \/ \E word \in WordsUpTo(Letters(width), MaxWord),
          swr \in BOOLEAN : CallGetPeriod(word, swr)
    \/ \E elems \in ListsUpTo(WordsUpTo(Letters(width), 1), MaxElems) :
          CallFindEquivalentActions(elems)
    \/ FindItem
    \/ FindReturn
    \/ OrbitStep

SpecAll == InitFind /\ [][NextAll]_vars

\* A newly constructed trellis on which reduce is called, and then called
\* again on what it returned.  The words: the actions of all_actions, with up
\* to MaxOver more of each letter, and short words that hold upper-case
\* letters and a letter that is not of the trellis.
ReduceWords(h, w) ==
    AllActions(Atomic(w), Period(h) + MaxOver)
      \cup WordsUpTo(Letters(w) \cup { UpperCase[1], LowerCase[Cols(w) + 1] }, MaxWord)

NextReduce ==
    \/ /\ op = "none"
       /\ \E word \in ReduceWords(height, width), swr \in BOOLEAN : CallReduce(word, swr)
    \/ CallReduceAgain
    \/ ReducePass

\* The while loop of a reduce that was called runs on.
SpecReduce == InitNew /\ [][NextReduce]_vars /\ WF_vars(ReducePass)

\* The trellis of height 1 that is one wider than the widest of Dims (its
\* configurations are not enumerated), and the calls of reduce on it.
InitWide ==
    /\ height = 1
    /\ width = MaxW + 1
    /\ seed = Seed0
    /\ get_rewrites = TrellisGetRewrites(height, width, seed)
    /\ trellis = NewTrellis(height, width)
    /\ InitRest

\* the words handed to reduce on it hold up to period / 2 - 1 + MaxOver of a
\* letter; a reduce that does not return is followed until it has applied
\* MaxApplied rules
WideWords(h, w) ==
    AllActions(Atomic(w), (Period(h) \div 2) + MaxOver)
      \cup WordsUpTo(Letters(w), MaxWord)

NextReduceWide ==
    \/ /\ op = "none"
       /\ \E word \in WideWords(height, width), swr \in BOOLEAN : CallReduce(word, swr)
    \/ CallReduceAgain
    \/ /\ Len(applied) < MaxApplied
       /\ ReducePass

SpecReduceWide == InitWide /\ [][NextReduceWide]_vars

\* A new trellis and one call of find_equivalent_actions() on what
\* all_reduced_actions() returns.
NextFindAll ==
    \/ /\ op = "none"
       /\ CallFindEquivalentActionsOfAll
    \/ FindItem
    \/ FindReturn

SpecFindAll == InitNew /\ [][NextFindAll]_vars

(***************************************************************************)
(* The transition step.                                                    *)
(***************************************************************************)
\* where the transition table sends the ball from its current slot
TableMove ==
    LET row == ball_position[1]
        col == ball_position[2]
        left == (trellis[ball_position] = LEFT)
        last == 2 * height
    IN  CASE row = last -> None
          [] row # last /\ row % 2 = 1 ->
                IF left THEN << row + 1, col >> ELSE << row + 1, col + 1 >>
          [] row # last /\ row % 2 = 0 /\ col = 0 ->
                IF left THEN << row + 2, col >> ELSE << row + 1, col >>
          [] row # last /\ row % 2 = 0 /\ col # 0 /\ col = width ->
                IF left THEN << row + 1, col - 1 >> ELSE << row + 2, col >>
          [] row # last /\ row % 2 = 0 /\ col # 0 /\ col # width ->
                IF left THEN << row + 1, col - 1 >> ELSE << row + 1, col >>

\* C1: an update step with the ball at (row, col) moves the ball as the
\* transition table says: odd row, LEFT -> (row+1, col), RIGHT -> (row+1,
\* col+1); even row at col 0, LEFT -> (row+2, col), RIGHT -> (row+1, col);
\* even row at the last column, LEFT -> (row+1, col-1), RIGHT -> (row+2, col);
\* even row inside, LEFT -> (row+1, col-1), RIGHT -> (row+1, col); from the
\* last row the ball becomes absent.
C1_TransitionTable ==
    [][ (pc = "update" /\ ball_position # None) => ball_position' = TableMove ]_vars

\* the ball has just skipped a row from the right edge of an even row
C1_Witness ==
    /\ pc = "update"
    /\ ball_path # << >>
    /\ LET p == ball_path[Len(ball_path)]
       IN  /\ p[1] % 2 = 0
           /\ p[2] = width
           /\ ball_position = << p[1] + 2, p[2] >>

\* C2: an update step with a ball present toggles the slot the ball was in,
\* also when the ball leaves from the last row, and changes no other slot.
C2_FlipsOnlyBallSlot ==
    [][ (pc = "update" /\ ball_position # None) =>
          /\ DOMAIN trellis' = DOMAIN trellis
          /\ \A s \in DOMAIN trellis :
                trellis'[s] = IF s = ball_position THEN ~ trellis[s] ELSE trellis[s] ]_vars

\* the ball has just left from the last row, whose slot now differs from
\* what it was when the ball was dropped
C2_Witness ==
    /\ pc = "update"
    /\ op = "drop_ball"
    /\ ball_position = None
    /\ ball_path # << >>
    /\ LET p == ball_path[Len(ball_path)]
       IN  /\ p[1] = 2 * height
           /\ trellis[p] # cfg0[p]

(***************************************************************************)
(* The drops as maps on configurations.                                    *)
(***************************************************************************)
SameLetters(u, v) ==
    /\ Len(u) = Len(v)
    /\ \A k \in 1..Len(u) :
          Cardinality({ i \in 1..Len(u) : u[i] = u[k] })
            = Cardinality({ i \in 1..Len(v) : v[i] = u[k] })

\* the rearrangements of the word of the running call
Rearrangements(word) ==
    { v \in WordsUpTo(Letters(width), Len(word)) : SameLetters(word, v) }

\* C3: drops commute: once drop_balls(word) has returned, the configuration
\* is the one that dropping the same letters in any other order into the
\* configuration of the call yields; for two letters x, y: drop(x) then
\* drop(y) equals drop(y) then drop(x).
C3_DropsCommute ==
    (pc = "idle" /\ op = "drop_balls" /\ err = "") =>
        \A v \in Rearrangements(word0) :
            DropBallsOp(height, width, cfg0, v) = trellis

\* two different letters were dropped, and the second ball met a switch the
\* first had flipped
C3_Witness ==
    /\ pc = "idle"
    /\ op = "drop_balls"
    /\ err = ""
    /\ Len(word0) = 2
    /\ word0[1] # word0[2]
    /\ \E s \in DOMAIN trellis :
          /\ DropBallOp(height, width, cfg0, word0[1])[s] # cfg0[s]
          /\ DropBallOp(height, width, cfg0, word0[2])[s] # cfg0[s]

\* C4: a drop is one-to-one on configurations: once drop_ball(x) has
\* returned, no configuration other than the one of the call is taken by
\* drop(x) to the configuration reached.
C4_DropInjective ==
    (pc = "idle" /\ op = "drop_ball" /\ err = "") =>
        \A c \in Configs(height, width) :
            c # cfg0 => DropBallOp(height, width, c, word0[1]) # trellis

\* a drop into a configuration that is not all LEFT has returned
C4_Witness ==
    /\ pc = "idle"
    /\ op = "drop_ball"
    /\ err = ""
    /\ ~ IsIdentity(cfg0)
    /\ trellis # cfg0

(***************************************************************************)
(* Periods and orbits.                                                     *)
(***************************************************************************)
\* the configurations after 1, 2, ..., n drops of word into t
RECURSIVE Laps(_, _, _)
Laps(t, word, n) ==
    IF n = 0 THEN << >>
    ELSE IF n = 1 THEN << DropBallsOp(height, width, t, word) >>
    ELSE CHOOSE all \in { first \o Laps(first[Len(first)], word, n - (n \div 2)) :
                             first \in { Laps(t, word, n \div 2) } } : TRUE

\* the least k >= 1 such that k drops of word into t leave every slot LEFT;
\* 0 if there is none up to MaxLaps * 2^rows
FirstReturn(t, word) ==
    LET laps == Laps(t, word, MaxLaps * Period(height))
        back == { k \in 1..Len(laps) : IsIdentity(laps[k]) }
    IN  IF back = { } THEN 0 ELSE CHOOSE k \in back : \A j \in back : k <= j

FromIdentity == pc = "idle" /\ err = "" /\ o_start = << >>
                  /\ op \in { "get_period", "get_orbit" }

\* C5: get_period(w), the length of get_orbit(w, ""), is the least k >= 1
\* such that dropping w k times into the all-LEFT configuration gives the
\* all-LEFT configuration again.
C5_PeriodIsLeastReturn ==
    FromIdentity =>
        /\ Len(orbit) >= 1
        /\ Len(orbit) = FirstReturn(NewTrellis(height, width), o_chars)
        /\ retval = IF op = "get_period" THEN << Len(orbit) >> ELSE orbit

\* get_period has returned a period above 1 that is less than 2^rows
C5_Witness ==
    /\ FromIdentity
    /\ op = "get_period"
    /\ retval[1] > 1
    /\ retval[1] < Period(height)

\* C6: the loop of get_orbit(w, start) finds the initial encoding again:
\* every call of get_orbit and get_period returns, without an error and
\* with at least one entry in the orbit.
C6_OrbitReturns ==
    (pc # "idle") ~> (pc = "idle" /\ err = "" /\ Len(orbit) >= 1)

\* get_orbit has returned from a start other than the empty word after
\* more than one round of its loop
C6_Witness ==
    /\ pc = "idle"
    /\ op = "get_orbit"
    /\ err = ""
    /\ o_start # << >>
    /\ o_swr
    /\ Len(orbit) > 1
    /\ retval = orbit

\* C7: 2^rows drops of w into the all-LEFT configuration give the all-LEFT
\* configuration: the loop of get_period never starts a round after 2^rows
\* rounds, the period it returns divides 2^rows, and dropping w 2^rows times
\* into the all-LEFT configuration leaves every slot LEFT.
C7_PeriodDividesTwoToRows ==
    /\ (pc = "orbit_reduce" /\ o_start = << >>) => count < Period(height)
    /\ FromIdentity =>
          /\ Period(height) % Len(orbit) = 0
          /\ IsIdentity(DropBallsOp(height, width, NewTrellis(height, width),
                                    Times(o_chars, Period(height))))

\* a letter of the trellis of height 2 and width 1 has period 16 = 2^5 / 2
C7_Witness ==
    /\ FromIdentity
    /\ op = "get_period"
    /\ Len(o_chars) = 1
    /\ retval = << 16 >>
    /\ Period(height) = 32

(***************************************************************************)
(* Reduction.                                                              *)
(***************************************************************************)
Reduced == pc = "idle" /\ op = "reduce" /\ err = ""

\* C8: reduction is sound on the trellises of height 1: once reduce(w) has
\* returned, dropping the word it returned into the all-LEFT configuration
\* gives the configuration that dropping w into it gives.
C8_ReduceSound ==
    (Reduced /\ height = 1) =>
        DropBallsOp(height, width, NewTrellis(height, width), retval)
          = DropBallsOp(height, width, NewTrellis(height, width), word0)

\* reduce has returned a shorter word that is not empty, for a word that
\* does not act as the identity
C8_Witness ==
    /\ Reduced
    /\ height = 1
    /\ retval # << >>
    /\ Len(retval) < Len(word0)
    /\ ~ IsIdentity(DropBallsOp(height, width, NewTrellis(height, width), word0))

\* C9: reduction is idempotent: once reduce(reduce(w)) has returned, in
\* either mode, what the second call returned is the word it was given.
C9_ReduceIdempotent ==
    (pc = "idle" /\ op = "reduce(reduce)" /\ err = "") => retval = r_word

\* the second call has returned, in the mode with weight-preserving rules,
\* on a word that the first call had shortened
C9_Witness ==
    /\ pc = "idle"
    /\ op = "reduce(reduce)"
    /\ err = ""
    /\ ~ r_swr
    /\ r_word # << >>
    /\ Len(r_word) < Len(word0)

\* the restart-from-top strategy: apply the first applicable rule of the
\* list, if there is one
RestartStep(st, rules) ==
    LET ks == { k \in 1..Len(rules) : Applicable(st.action, rules[k]) }
        k1 == CHOOSE k \in ks : \A j \in ks : k <= j
    IN  IF ks = { } THEN st
        ELSE [ action |-> CounterAdd(st.action, rules[k1]),
               applied |-> Append(st.applied, k1) ]

\* n steps of the restart-from-top strategy
RECURSIVE RestartRun(_, _, _)
RestartRun(st, rules, n) ==
    IF n = 0 THEN st
    ELSE IF n = 1 THEN RestartStep(st, rules)
    ELSE CHOOSE r \in { RestartRun(mid, rules, n - (n \div 2)) :
                          mid \in { RestartRun(st, rules, n \div 2) } } : TRUE

\* the restart-from-top strategy run to its end on the letters of word, under
\* rules that all lower the weight
RestartFromTop(chs, word, rules) ==
    RestartRun([ action |-> CounterOf(chs, LowerStr(word)), applied |-> << >> ],
               rules, Len(word))

\* C10 as stated: once reduce(w) has returned under the strictly
\* weight-reducing rules, the rules it applied, in order, and its result are
\* those of the restart-from-top strategy.
C10_RestartFromTop ==
    (Reduced /\ r_swr) =>
        LET top == RestartFromTop(Atomic(width), word0, rewrites)
        IN  /\ applied = top.applied
            /\ retval = CounterToStr(top.action)

RECURSIVE SumRange(_, _, _)
SumRange(f, lo, hi) ==
    IF lo > hi THEN 0
    ELSE IF lo = hi THEN f[lo]
    ELSE SumRange(f, lo, (lo + hi) \div 2) + SumRange(f, ((lo + hi) \div 2) + 1, hi)

\* the vector a plus those of the rules ks that come before rule k in the list
VectorBefore(a, rules, ks, k) ==
    [ c \in DOMAIN a |->
        a[c] + SumRange([ i \in 1..Len(ks) |-> IF ks[i] < k THEN rules[ks[i]][c] ELSE 0 ],
                        1, Len(ks)) ]

\* C10 amended: reduce works in passes.  A pass scans the rule list once,
\* first rule to last, and applies every rule that is applicable to the
\* vector as the rules applied earlier in the same pass have left it; it
\* does not go back to the first rule after applying one.  reduce returns
\* when a pass has applied no rule.
C10_PassAppliesEveryApplicable ==
    [][ pc = "reduce" =>
          LET ks == SubSeq(applied', Len(applied) + 1, Len(applied'))
          IN  /\ Len(applied') >= Len(applied)
              /\ SubSeq(applied', 1, Len(applied)) = applied
              /\ \A i \in 1..(Len(ks) - 1) : ks[i] < ks[i + 1]
              /\ \A k \in 1..Len(rewrites) :
                    (\E i \in 1..Len(ks) : ks[i] = k)
                      <=> Applicable(VectorBefore(action, rewrites, ks, k), rewrites[k])
              /\ IF ks = << >>
                 THEN pc' = ret /\ result' = CounterToStr(action)
                 ELSE /\ pc' = "reduce"
                      /\ action' = VectorBefore(action, rewrites, ks, Len(rewrites) + 1) ]_vars

\* reduce has returned a result that the restart-from-top strategy does not
\* give, after applying two rules or more
C10_Witness ==
    /\ Reduced
    /\ r_swr
    /\ Len(applied) >= 2
    /\ retval # CounterToStr(RestartFromTop(Atomic(width), word0, rewrites).action)

\* the number of letters of the vector a of the running reduce
LetterCount(a) ==
    SumRange([ i \in 1..Cols(width) |-> a[Atomic(width)[i]] ], 1, Cols(width))

\* C11: under the strictly weight-reducing rules reduce terminates: every
\* pass that changes the vector lowers its number of letters, and the while
\* loop of every call is left.
C11_StrictReduceTerminates ==
    /\ [][ (pc = "reduce" /\ r_swr /\ action' # action)
             => LetterCount(action') < LetterCount(action) ]_vars
    /\ ((pc = "reduce" /\ r_swr) ~> (pc = "idle" /\ err = ""))

\* a pass under the strict rules has changed the vector, and the next pass
\* changes it again
C11_Witness ==
    /\ pc = "reduce"
    /\ r_swr
    /\ applied # << >>
    /\ ReduceStep(action, rewrites).action # action

\* some rearrangements of word: its reversal, its rotation by one letter, and
\* the exchanges of two neighbours among its first letters
Shuffles(word) ==
    LET n == Len(word)
    IN  { [ i \in 1..n |-> word[n + 1 - i] ], [ i \in 1..n |-> word[(i % n) + 1] ] }
          \cup { [ i \in 1..n |-> IF i = k THEN word[k + 1]
                                  ELSE IF i = k + 1 THEN word[k] ELSE word[i] ] :
                 k \in 1..(IF n - 1 < MaxWord THEN n - 1 ELSE MaxWord) }

\* the letters of word are in the order of the alphabet
IsSortedWord(word) ==
    \A i \in 1..(Len(word) - 1) : OrdMinusA(word[i]) <= OrdMinusA(word[i + 1])

\* C12: reduction depends on the letters of the word only, not on their
\* order: once reduce(w) has returned, its result lists its letters in the
\* order of the alphabet, and reduce of a rearrangement of w, over the same
\* rule list, is the same string.
C12_ReduceOfMultiset ==
    Reduced =>
        /\ IsSortedWord(retval)
        /\ \A v \in Shuffles(word0) : ReduceOp(Atomic(width), v, rewrites) = retval

\* reduce has returned two different letters for a word that was not sorted
C12_Witness ==
    /\ Reduced
    /\ ~ IsSortedWord(LowerStr(word0))
    /\ Len(retval) >= 2
    /\ retval[1] # retval[Len(retval)]


\* the vectors that applications of applicable rules, taken in any order and
\* any number, reach from the vectors of S
RECURSIVE RewriteClosure(_, _)
RewriteClosure(S, rules) ==
    LET T == S \cup { CounterAdd(v, rules[k]) :
                        << v, k >> \in { x \in S \X (1..Len(rules)) :
                                           Applicable(x[1], rules[x[2]]) } }
    IN  IF T = S THEN S ELSE RewriteClosure(T, rules)

\* the vectors among them that no rule applies to: where a run of reduce
\* can stop, whatever the order of the rules in the list
NormalForms(a, rules) ==
    { v \in RewriteClosure({ a }, rules) :
        \A k \in 1..Len(rules) : ~ Applicable(v, rules[k]) }

\* a call of reduce with the strict rules, on the trellis with alphabet
\* {a, b, c} and period 8, of the word of 8 copies of one letter
EightOfOne ==
    /\ height = 1 /\ width = 2 /\ Period(height) = 8
    /\ op = "reduce" /\ r_swr
    /\ \E c \in Letters(width) : word0 = Repeat(c, 8)

\* C13: for alphabet {a, b, c}, period 8 and the strict rules, reduce of 8
\* copies of one letter returns the empty word: it does in every enumerated
\* order of the rule list, and the zero vector is the only vector reachable
\* from the word by rule applications that no rule applies to.
C13_EightCopiesReduceToEmpty ==
    (Reduced /\ EightOfOne) =>
        /\ retval = << >>
        /\ NormalForms(CounterOf(Atomic(width), word0), rewrites)
             = { CounterOf(Atomic(width), << >>) }

\* reduce has returned for "bbbbbbbb" with a rule list in an order other
\* than that of Seed0
C13_Witness ==
    /\ Reduced /\ EightOfOne
    /\ word0 = Repeat("b", 8)
    /\ seed # Seed0


\* the sum of the coordinates of a rule of the trellis's alphabet
RuleWeight(rule) == LetterCount(rule)

\* C14: every rule of getRewrites has a coordinate sum <= 0, and every rule
\* of the strict list has a coordinate sum < 0, for the alphabets and
\* periods of the trellises within bounds and every enumerated order.
C14_RulesDoNotIncreaseWeight ==
    \A swr \in BOOLEAN : \A k \in 1..Len(get_rewrites[swr]) :
        /\ RuleWeight(get_rewrites[swr][k]) <= 0
        /\ swr => RuleWeight(get_rewrites[swr][k]) < 0

\* a call of reduce runs on a list that getRewrites returned: the strict
\* list, which has rules obtained by inverting a tuple (a positive
\* coordinate period - n turned into n - period < -(period \div 2)), while
\* the other list has a rule of sum 0
C14_Witness ==
    /\ pc = "reduce" /\ r_swr /\ rewrites = get_rewrites[TRUE]
    /\ \E k \in 1..Len(rewrites) : \E c \in Letters(width) :
          rewrites[k][c] < 0 - (Period(height) \div 2)
    /\ \E k \in 1..Len(get_rewrites[FALSE]) : RuleWeight(get_rewrites[FALSE][k]) = 0

\* the rule with every coordinate negated
NegatedRule(rule) == [ c \in DOMAIN rule |-> 0 - rule[c] ]

\* C15: the list of getRewrites(chars, period, False) holds no vector
\* together with its negation and no vector twice, over the whole list (the
\* rules of every n together).
C15_NoRuleWithItsInverse ==
    LET rules == get_rewrites[FALSE]
    IN  \A i, j \in 1..Len(rules) :
            /\ rules[i] # NegatedRule(rules[j])
            /\ (i # j) => rules[i] # rules[j]

\* a call of reduce runs on the list with weight-preserving rules, which
\* holds a rule of sum 0 and rules of two values of n
C15_Witness ==
    /\ pc = "reduce" /\ ~ r_swr /\ rewrites = get_rewrites[FALSE]
    /\ \E k \in 1..Len(rewrites) : RuleWeight(rewrites[k]) = 0
    /\ \E i, j \in 1..Len(rewrites) : \E c \in Letters(width) :
          /\ rewrites[i][c] = 0 - 2
          /\ rewrites[j][c] = 0 - 4


\* a step that is a call of drop_ball
DropBallCalled == pc = "idle" /\ op' = "drop_ball"

\* C16: drop_ball called while a ball is in flight fails with an error,
\* whatever the letter, and leaves the configuration and the ball position
\* as they were.
C16_DropWhileInFlightFails ==
    [][ (DropBallCalled /\ ball_position # None)
          => /\ err' = "AssertionError"
             /\ pc' = "idle"
             /\ trellis' = trellis
             /\ ball_position' = ball_position ]_vars

\* drop_ball of a letter of the alphabet has failed on a trellis whose ball
\* is in flight below the top row
C16_Witness ==
    /\ pc = "idle" /\ op = "drop_ball" /\ err = "AssertionError"
    /\ ball_position # None /\ ball_position[1] > 0
    /\ IsValidAction(width, word0[1])

\* C17: drop_ball called with no ball in flight and a letter that is not a
\* letter of the alphabet (in either case) fails with an error, and leaves
\* the configuration as it was and the ball absent.
C17_DropOfInvalidLetterFails ==
    [][ (DropBallCalled /\ ball_position = None
           /\ Lower(word0'[1]) \notin Letters(width))
          => /\ err' = "AssertionError"
             /\ pc' = "idle"
             /\ trellis' = trellis
             /\ ball_position' = None ]_vars

\* drop_ball of the letter that follows the alphabet has failed on a trellis
\* with no ball, in a configuration other than all LEFT
C17_Witness ==
    /\ pc = "idle" /\ op = "drop_ball" /\ err = "AssertionError"
    /\ ball_position = None
    /\ word0 = << LowerCase[Cols(width) + 1] >>
    /\ ~ IsIdentity(trellis)

\* C18: reset() sets every slot to LEFT and empties the path trace, leaves
\* the ball position as it was, a ball in flight included, and leaves the
\* dimensions (so rows, cols, period and the alphabet) as they were; after
\* it is_identity() is true.
C18_ResetFrame ==
    [][ (pc = "idle" /\ op' = "reset")
          => /\ \A s \in Slots(height, width) : trellis'[s] = LEFT
             /\ DOMAIN trellis' = Slots(height, width)
             /\ ball_path' = << >>
             /\ ball_position' = ball_position
             /\ height' = height /\ width' = width
             /\ IsIdentity(trellis')
             /\ err' = "" ]_vars

\* reset() has returned on a trellis that was not all LEFT and whose ball
\* is in flight
C18_Witness ==
    /\ pc = "idle" /\ op = "reset"
    /\ ball_position # None
    /\ ~ IsIdentity(cfg0)
    /\ IsIdentity(trellis) /\ ball_path = << >>


\* the number of slots that come before slot s when the rows are read one
\* after the other, each from left to right
SlotRank(h, w, s) ==
    Cardinality({ u \in Slots(h, w) : u[1] < s[1] \/ (u[1] = s[1] /\ u[2] < s[2]) })

\* C19: what encoded_trellis() returns has bit i set exactly when the slot
\* of row-major index i is LEFT and no other bit; so it is the encoding of
\* no other configuration of the trellis, and it is 2^N - 1, N the number of
\* slots, exactly when is_identity() holds.
C19_EncodingFaithful ==
    (pc = "idle" /\ op = "encoded_trellis") =>
        LET N == Cardinality(Slots(height, width))
        IN  /\ retval \in 0..(2 ^ N - 1)
            /\ \A s \in Slots(height, width) :
                  ((retval \div (2 ^ SlotRank(height, width, s))) % 2 = 1)
                     <=> (trellis[s] = LEFT)
            /\ \A c \in Configs(height, width) :
                  (EncodedTrellis(height, width, c) = retval) <=> (c = trellis)
            /\ IsIdentity(trellis) <=> (retval = 2 ^ N - 1)

\* encoded_trellis() has returned for a configuration of the 2x1 trellis
\* whose last row is mixed and which has RIGHT slots in other rows
C19_Witness ==
    /\ pc = "idle" /\ op = "encoded_trellis"
    /\ height = 2 /\ width = 1
    /\ trellis[<< Rows(height) - 1, 0 >>] = LEFT
    /\ trellis[<< Rows(height) - 1, 1 >>] = RIGHT
    /\ trellis[<< 1, 0 >>] = RIGHT
    /\ retval = EncodedTrellis(height, width, trellis)


\* find_equivalent_actions has returned
Found == pc = "idle" /\ op = "find_equivalent_actions" /\ err = ""

\* the number of places of a list that hold x
Occurrences(list, x) == Cardinality({ i \in DOMAIN list : list[i] = x })

\* the keys of the dictionary whose class holds x
ClassesWith(vis, x) == { e \in DOMAIN vis : Occurrences(vis[e], x) > 0 }

\* the dictionary without the order of its lists: for every key, how often
\* each word is in its class
Unordered(vis, words) ==
    [ e \in DOMAIN vis |-> [ x \in words |-> Occurrences(vis[e], x) ] ]

\* the configuration that drop_balls(word) leaves after reset()
Terminal(word) == DropBallsOp(height, width, NewTrellis(height, width), word)

\* C20: the dictionary that find_equivalent_actions(elements) returns is a
\* partition of elements: every supplied word is in exactly one class, as
\* often as it was supplied, and the classes hold nothing else; two supplied
\* words are in the same class iff drop_balls of each after reset ends in
\* the same configuration; the key of a class is the encoding of that
\* configuration; and the classes are those of the list in another order.
C20_EquivalentActionsPartition ==
    Found =>
        LET words == { word0[k] : k \in DOMAIN word0 }
        IN  /\ \A x \in words :
                  /\ Cardinality(ClassesWith(retval, x)) = 1
                  /\ \A e \in ClassesWith(retval, x) :
                        Occurrences(retval[e], x) = Occurrences(word0, x)
            /\ \A e \in DOMAIN retval :
                  /\ retval[e] # << >>
                  /\ \A m \in DOMAIN retval[e] :
                        /\ retval[e][m] \in words
                        /\ EncodedTrellis(height, width, Terminal(retval[e][m])) = e
            /\ \A x, y \in words :
                  (ClassesWith(retval, x) = ClassesWith(retval, y))
                     <=> (Terminal(x) = Terminal(y))
            /\ \A other \in Shuffles(word0) :
                  Unordered(FindEquivalentActionsOp(height, width, other), words)
                     = Unordered(retval, words)

\* find_equivalent_actions has returned, on a trellis that was not all LEFT,
\* two classes for three words, one with two different words
C20_Witness ==
    /\ Found
    /\ ~ IsIdentity(cfg0)
    /\ Len(word0) = 3
    /\ Cardinality(DOMAIN retval) = 2
    /\ \E e \in DOMAIN retval :
          /\ Len(retval[e]) = 2
          /\ retval[e][1] # retval[e][2]


\* the words that word is compared with: the short words, and word followed
\* by 2^rows copies of one letter
Rivals(word) ==
    WordsUpTo(Letters(width), MaxWord)
      \cup { word \o Repeat(c, Period(height)) : c \in Letters(width) }

\* C21: the action is free: once drop_balls(u) has returned, from whatever
\* configuration it was called in, every word v that ends in the same
\* configuration as u from the all-LEFT configuration takes the
\* configuration of the call to the configuration reached.
C21_ActionFree ==
    (pc = "idle" /\ op = "drop_balls" /\ err = "") =>
        \A v \in Rivals(word0) :
            (Terminal(v) = Terminal(word0))
               => (DropBallsOp(height, width, cfg0, v) = trellis)

\* drop_balls of two different letters has returned, called in a
\* configuration that no word reaches from all LEFT within 2 * MaxWord
\* letters, and the word has rivals with its effect on all LEFT: the letters
\* in the other order, and a longer word
C21_Witness ==
    /\ pc = "idle" /\ op = "drop_balls" /\ err = ""
    /\ Len(word0) = 2 /\ word0[1] # word0[2]
    /\ \A x \in WordsUpTo(Letters(width), 2 * MaxWord) : Terminal(x) # cfg0
    /\ Terminal(<< word0[2], word0[1] >>) = Terminal(word0)
    /\ \E c \in Letters(width) : Terminal(word0 \o Repeat(c, Period(height))) = Terminal(word0)


\* the configurations that the words of all_actions() reach from all LEFT
Reached == { Terminal(a) : a \in AllActions(Atomic(width), Period(height)) }

\* C22: on the 1x1 trellis find_equivalent_actions() of the output of
\* all_reduced_actions() returns exactly 16 classes; they are the
\* configurations reached from the all-LEFT configuration, a set of 16 that
\* the drop of a letter does not lead out of.
C22_SixteenClasses ==
    (Found /\ height = 1 /\ width = 1) =>
        /\ Cardinality(DOMAIN retval) = 16
        /\ DOMAIN retval = { EncodedTrellis(height, width, c) : c \in Reached }
        /\ Cardinality(Reached) = 16
        /\ \A c \in Reached : \A x \in Letters(width) :
              DropBallOp(height, width, c, x) \in Reached

\* find_equivalent_actions() has returned on the 1x1 trellis for a list of
\* more than 16 reduced words, so that some class holds two of them
C22_Witness ==
    /\ Found /\ height = 1 /\ width = 1
    /\ Len(word0) > 16
    /\ \E e \in DOMAIN retval : Len(retval[e]) >= 2


\* get_orbit has returned
OrbitReturned == pc = "idle" /\ op = "get_orbit" /\ err = ""

\* C23: on the trellises of height 1 (width 1 or 2), with the strict rules,
\* the entries of the list that get_orbit(word, start) returns are pairwise
\* distinct, and entry i (from 0) is reduce(start + word * i).
C23_OrbitEntriesDistinct ==
    (OrbitReturned /\ height = 1 /\ o_swr) =>
        /\ \A i, j \in 1..Len(retval) : (i # j) => (retval[i] # retval[j])
        /\ \A i \in 1..Len(retval) :
              retval[i] = ReduceOp(Atomic(width), o_start \o Times(o_chars, i - 1),
                                   get_rewrites[TRUE])

\* get_orbit has returned, from a start other than the empty word, a list
\* of 2^rows entries, the last shorter than start + word * (2^rows - 1)
C23_Witness ==
    /\ OrbitReturned /\ height = 1 /\ o_swr
    /\ o_start # << >>
    /\ Len(retval) = Period(height)
    /\ Len(retval[Len(retval)]) < Len(o_start) + Len(o_chars) * (Len(retval) - 1)

\* get_orbit or get_period has returned
OrbitDone == pc = "idle" /\ err = "" /\ op \in { "get_period", "get_orbit" }

\* the least k >= 1 such that k drops of word into t give t again; 0 if
\* there is none up to MaxLaps * 2^rows
FirstBack(t, word) ==
    CHOOSE n \in 0..(MaxLaps * Period(height)) :
        \E laps \in { Laps(t, word, MaxLaps * Period(height)) } :
            LET back == { k \in 1..Len(laps) : \A s \in DOMAIN t : laps[k][s] = t[s] }
            IN  IF back = { } THEN n = 0
                ELSE n \in back /\ \A j \in back : n <= j

\* C29: the length of the orbit does not depend on the start: the list that
\* get_orbit(w, start) builds has as many entries as it takes drops of w to
\* bring the all-LEFT configuration back, which is get_period(w) and the
\* length of get_orbit(w, "").
C29_OrbitLengthFreeOfStart ==
    OrbitDone =>
        /\ Len(orbit) = FirstReturn(NewTrellis(height, width), o_chars)
        /\ Len(orbit) = FirstBack(Terminal(o_start), o_chars)
        /\ (op = "get_orbit") => (Len(retval) = Len(orbit))
        /\ (op = "get_period") => (retval = << Len(orbit) >>)

\* get_orbit has returned more than one entry from a start that holds a
\* letter that is not in the word
C29_Witness ==
    /\ OrbitDone /\ op = "get_orbit"
    /\ o_start # << >>
    /\ \A k \in 1..Len(o_chars) : o_chars[k] # o_start[1]
    /\ Len(orbit) > 1
    /\ Len(orbit) < Period(height)


\* reduce, called by the user or on its own result, has returned
ReduceReturned == pc = "idle" /\ err = "" /\ op \in { "reduce", "reduce(reduce)" }

\* C24: reduce returns a fixpoint: once reduce(w) has returned, in either
\* mode, no rule of the list is applicable to the vector of the word
\* returned: every rule has a letter whose count plus the rule's entry is
\* negative.
C24_ReduceReturnsFixpoint ==
    ReduceReturned =>
        \A k \in 1..Len(rewrites) :
            \E c \in Letters(width) :
                CounterOf(Atomic(width), retval)[c] + rewrites[k][c] < 0


\* C25: the ball never leaves the grid: every ball position set during a
\* drop is absent or a pair (row, col) with 0 <= row < rows and
\* 0 <= col < cols - (row mod 2), and no read or flip of the ball's slot
\* raises IndexError.
C25_BallStaysInGrid ==
    /\ \/ ball_position = None
       \/ /\ ball_position[1] \in 0..(Rows(height) - 1)
          /\ ball_position[2] \in 0..(Cols(width) - (ball_position[1] % 2) - 1)
          /\ ball_position \in DOMAIN trellis
    /\ err # "IndexError"

\* the ball is in the last slot of an odd row, where it came from the last
\* slot of the even row above
C25_Witness ==
    /\ pc = "update"
    /\ ball_position # None
    /\ ball_position[1] % 2 = 1
    /\ ball_position[2] = Cols(width) - 2
    /\ ball_path # << >>
    /\ ball_path[Len(ball_path)] = << ball_position[1] - 1, Cols(width) - 1 >>

\* C26: every drop terminates: every update step that leaves the ball in
\* the grid moves it to a higher row; the path of a drop starts in row 0,
\* holds one slot of row 0 and, when the ball has left, ends with the one
\* slot of the last row that it holds; no slot is in it twice; it never
\* has more than rows entries; and the loop of updates ends.
C26_DropTerminates ==
    /\ [][ (pc = "update" /\ ball_position # None /\ ball_position' # None)
             => ball_position'[1] > ball_position[1] ]_vars
    /\ [] /\ Len(ball_path) <= Rows(height)
          /\ \A i, j \in 1..Len(ball_path) :
                (i < j) => (ball_path[i][1] < ball_path[j][1])
          /\ (ball_path # << >>) => (ball_path[1][1] = 0)
          /\ (pc = "update" /\ ball_position # None)
                => \A i \in 1..Len(ball_path) : ball_path[i][1] < ball_position[1]
          /\ (pc = "update" /\ ball_position = None)
                => /\ ball_path # << >>
                   /\ ball_path[Len(ball_path)][1] = Rows(height) - 1
    /\ (pc = "update") ~> (pc = "idle")

\* the ball has left the trellis of height 2 after fewer than rows steps,
\* having skipped a row
C26_Witness ==
    /\ pc = "update" /\ ball_position = None
    /\ height = 2
    /\ Len(ball_path) < Rows(height)
    /\ Len(ball_path) > 1

\* C28: drop_balls is not atomic on error.  When drop_balls(word) is called
\* with no ball in flight and word holds an invalid letter, the first at
\* index i, the call fails with an assertion error, the configuration is the
\* one the drop of the first i letters of word leaves, and the ball is absent.
DropsFailed ==
    /\ pc = "idle"
    /\ op = "drop_balls"
    /\ ~ IsValidElement(width, word0)

C28_DropBallsNotAtomic ==
    /\ DropsFailed =>
          /\ err = "AssertionError"
          /\ trellis = DropBallsOp(height, width, cfg0, ValidPrefix(width, word0))
          /\ ball_position = None
    /\ (pc = "idle" /\ op = "drop_balls" /\ IsValidElement(width, word0)) => err = ""

C28_Witness ==
    /\ DropsFailed
    /\ Len(word0) = MaxWord
    /\ Len(ValidPrefix(width, word0)) = MaxWord - 1
    /\ trellis # cfg0
    /\ trellis # NewTrellis(height, width)
    /\ width = MaxW

\* C27: no ball is left in flight between operations.  From a newly
\* constructed trellis, after any sequence of completed calls of drop_ball,
\* drop_balls, reset, get_orbit, get_period and find_equivalent_actions with
\* valid letters, ball_position is absent and the path trace is empty, and no
\* call of the sequence fails.
C27_NoBallBetweenCalls ==
    /\ pc = "idle" => (ball_position = None /\ ball_path = << >>)
    /\ err = ""

C27_Witness ==
    /\ pc = "idle"
    /\ op = "find_equivalent_actions"
    /\ cfg0 # NewTrellis(height, width)
    /\ trellis # cfg0
    /\ Len(word0) = MaxElems
    /\ ball_position = None

====
